---- MODULE Spec2Model ----
(***************************************************************************)
(* zjson: a tokenizer built from nom parser combinators (src/src/lib.rs).  *)
(*                                                                         *)
(* Text is a sequence of one-character strings.  Every recognizer is a     *)
(* pure function from the input text to a result; the state machine draws  *)
(* an input text and calls one recognizer on it.                           *)
(*                                                                         *)
(* The combinators come from the nom crate (versions 5 to 7 share the      *)
(* behaviour modelled here); each one is modelled at the place where       *)
(* lib.rs uses it.  IResult<&str, Token> takes nom's default error type,   *)
(* which holds the input at the point of failure and an ErrorKind.         *)
(***************************************************************************)
EXTENDS Integers, Sequences, FiniteSets, TLC

VARIABLES input, called, result, conv

vars == <<input, called, result, conv>>

----------------------------------------------------------------------------
(* Bounds of the checked inputs *)

MaxStrLen == 6

MaxNumLen == 6

BS == "\\"

SQ == "'"

DQ == "\""

StrAlphabet == {SQ, DQ, BS, "a", "n"}

NumAlphabet == {"0", "1", "_", ".", "e", "-"}

SeqsUpTo(S, n) == UNION {[1..k -> S] : k \in 0..n}

Inputs == SeqsUpTo(StrAlphabet, MaxStrLen) \cup SeqsUpTo(NumAlphabet, MaxNumLen)

----------------------------------------------------------------------------
(* Text helpers *)

Drop(s, n) == SubSeq(s, n + 1, Len(s))

Take(s, n) == SubSeq(s, 1, n)

----------------------------------------------------------------------------
(* Results and tokens *)

Ok(rest, out) == [kind |-> "Ok", rest |-> rest, out |-> out]

\* nom::error::Error { input, code }.  The context field records the labels
\* that add_context attaches to the error.
Err(i, code) == [kind |-> "Err", input |-> i, code |-> code, context |-> <<>>]

Panic == [kind |-> "Panic"]

TokenString(text) == [type |-> "String", text |-> text]

TokenNumber(value) == [type |-> "Number", value |-> value]

NoConv == <<>>

----------------------------------------------------------------------------
(* Quoted strings *)

\* context(label, parser): on an error of the parser, E::add_context(input,
\* label, e).  For the default error type of IResult the ContextError
\* implementation is the trait's default, which returns e as it is.
add_context(i, label, e) == e

context(i, label, r) == IF r.kind = "Err" THEN add_context(i, label, r) ELSE r

\* tag(t) for a one-character tag
tag(t, i) ==
    IF Len(i) >= 1 /\ i[1] = t THEN Ok(Drop(i, 1), <<t>>) ELSE Err(i, "Tag")

\* none_of("\\Q")
none_of_bs_quote(Q, i) ==
    IF i = <<>> THEN Err(i, "NoneOf")
    ELSE IF i[1] \in {BS, Q} THEN Err(i, "NoneOf")
    ELSE Ok(Drop(i, 1), i[1])

\* escape_target with any character taken as the target of an escape
escape_target_any(Q, i) ==
    IF Len(i) >= 1 THEN Ok(Drop(i, 1), <<i[1]>>) ELSE Err(i, "Tag")

\* alt((tag("\\"), tag(Q))): the error of the last alternative is returned
escape_target(Q, i) ==
    LET first == tag(BS, i)
    IN  IF first.kind = "Ok" THEN first ELSE tag(Q, i)

\* escaped_transform(none_of("\\Q"), '\\', alt((tag("\\"), tag(Q)))): the loop
\* over index (0-based), res the text built so far.
RECURSIVE escaped_transform_loop(_, _, _, _)
escaped_transform_loop(Q, i, index, res) ==
    IF index >= Len(i) THEN Ok(Drop(i, index), res)
    ELSE
      LET remainder == Drop(i, index)
          normal == none_of_bs_quote(Q, remainder)
      IN  IF normal.kind = "Ok"
          THEN IF Len(normal.rest) = 0
               THEN Ok(<<>>, Append(res, normal.out))
               ELSE escaped_transform_loop(Q, i, Len(i) - Len(normal.rest),
                                           Append(res, normal.out))
          ELSE IF remainder[1] = BS
          THEN LET next == index + 1
               IN  IF next >= Len(i)
                   THEN Err(remainder, "EscapedTransform")
                   ELSE LET tr == escape_target(Q, Drop(i, next))
                        IN  IF tr.kind = "Ok"
                            THEN IF Len(tr.rest) = 0
                                 THEN Ok(<<>>, res \o tr.out)
                                 ELSE escaped_transform_loop(
                                          Q, i, Len(i) - Len(tr.rest),
                                          res \o tr.out)
                            ELSE tr
          ELSE IF index = 0
               THEN Err(remainder, "EscapedTransform")
               ELSE Ok(remainder, res)

\* escaped_transform with the text returned as it was read, escapes kept
escaped_raw(Q, i) ==
    LET r == escaped_transform_loop(Q, i, 0, <<>>)
    IN  IF r.kind = "Ok" THEN Ok(r.rest, Take(i, Len(i) - Len(r.rest))) ELSE r

escaped_transform(Q, i) == escaped_transform_loop(Q, i, 0, <<>>)

\* delimited(tag(Q), escaped_transform(...), tag(Q))
delimited_quoted(Q, i) ==
    LET open == tag(Q, i)
    IN  IF open.kind = "Err" THEN open
        ELSE LET body == escaped_transform(Q, open.rest)
             IN  IF body.kind = "Err" THEN body
                 ELSE LET close == tag(Q, body.rest)
                      IN  IF close.kind = "Err" THEN close
                          ELSE Ok(close.rest, body.out)

quoted_string(Q, label, i) ==
    LET r == context(i, label, delimited_quoted(Q, i))
    IN  IF r.kind = "Ok" THEN Ok(r.rest, TokenString(r.out)) ELSE r

parse_single_quoted_string(i) == quoted_string(SQ, "single_quoted_string", i)

parse_double_quoted_string(i) == quoted_string(DQ, "double_quoted_string", i)

\* parse_string with the second alternative left out
parse_string_single_only(i) ==
    context(i, "string", parse_single_quoted_string(i))

\* alt((parse_single_quoted_string, parse_double_quoted_string)) in a context
parse_string(i) ==
    LET first == parse_single_quoted_string(i)
        r == IF first.kind = "Ok" THEN first ELSE parse_double_quoted_string(i)
    IN  context(i, "string", r)

----------------------------------------------------------------------------
(* Numbers *)

Digits == {"0", "1", "2", "3", "4", "5", "6", "7", "8", "9"}

\* many0(char('_')): the input left after the leading underscores
RECURSIVE many0_underscore(_)
many0_underscore(i) ==
    IF Len(i) >= 1 /\ i[1] = "_" THEN many0_underscore(Drop(i, 1)) ELSE i

\* digit_group with the separators after the digit left in the input
digit_group_no_separator(i) ==
    IF Len(i) >= 1 /\ i[1] \in Digits
    THEN Ok(Drop(i, 1), i[1])
    ELSE Err(i, "OneOf")

\* terminated(one_of("0123456789"), many0(char('_')))
digit_group(i) ==
    IF Len(i) >= 1 /\ i[1] \in Digits
    THEN Ok(many0_underscore(Drop(i, 1)), i[1])
    ELSE Err(i, "OneOf")

\* many1(...): the input left after as many groups as match, one at least
RECURSIVE many_digit_groups(_)
many_digit_groups(i) ==
    LET g == digit_group(i)
    IN  IF g.kind = "Ok" THEN many_digit_groups(g.rest) ELSE i

\* recognize(many1(terminated(one_of("0123456789"), many0(char('_')))))
parse_decimal(i) ==
    LET g == digit_group(i)
    IN  IF g.kind = "Err" THEN g
        ELSE LET rest == many_digit_groups(g.rest)
             IN  Ok(rest, Take(i, Len(i) - Len(rest)))

\* char(c)
char(c, i) ==
    IF Len(i) >= 1 /\ i[1] = c THEN Ok(Drop(i, 1), c) ELSE Err(i, "Char")

\* one_of(set)
one_of(set, i) ==
    IF Len(i) >= 1 /\ i[1] \in set THEN Ok(Drop(i, 1), i[1]) ELSE Err(i, "OneOf")

\* opt(p): the input left, the input itself when p fails
opt_rest(i, r) == IF r.kind = "Ok" THEN r.rest ELSE i

\* tuple((one_of("eE"), opt(one_of("+-")), parse_decimal))
exponent(i) ==
    LET e == one_of({"e", "E"}, i)
    IN  IF e.kind = "Err" THEN e
        ELSE parse_decimal(opt_rest(e.rest, one_of({"+", "-"}, e.rest)))

\* Case one: '.', parse_decimal, opt(exponent)
shape_one(i) ==
    LET dot == char(".", i)
    IN  IF dot.kind = "Err" THEN dot
        ELSE LET d == parse_decimal(dot.rest)
             IN  IF d.kind = "Err" THEN d
                 ELSE LET rest == opt_rest(d.rest, exponent(d.rest))
                      IN  Ok(rest, Take(i, Len(i) - Len(rest)))

\* preceded(char('.'), parse_decimal)
fraction(i) ==
    LET dot == char(".", i)
    IN  IF dot.kind = "Err" THEN dot ELSE parse_decimal(dot.rest)

\* shape_two with the exponent made optional
shape_two_optional_exponent(i) ==
    LET d == parse_decimal(i)
    IN  IF d.kind = "Err" THEN d
        ELSE LET afterFraction == opt_rest(d.rest, fraction(d.rest))
                 rest == opt_rest(afterFraction, exponent(afterFraction))
             IN  Ok(rest, Take(i, Len(i) - Len(rest)))

\* Case two: parse_decimal, opt(fraction), one_of("eE"), opt(one_of("+-")),
\* parse_decimal
shape_two(i) ==
    LET d == parse_decimal(i)
    IN  IF d.kind = "Err" THEN d
        ELSE LET e == exponent(opt_rest(d.rest, fraction(d.rest)))
             IN  IF e.kind = "Err" THEN e
                 ELSE Ok(e.rest, Take(i, Len(i) - Len(e.rest)))

\* Case three: parse_decimal, char('.'), opt(parse_decimal)
shape_three(i) ==
    LET d == parse_decimal(i)
    IN  IF d.kind = "Err" THEN d
        ELSE LET dot == char(".", d.rest)
             IN  IF dot.kind = "Err" THEN dot
                 ELSE LET rest == opt_rest(dot.rest, parse_decimal(dot.rest))
                      IN  Ok(rest, Take(i, Len(i) - Len(rest)))

\* float_lexeme with case three tried before case two
float_lexeme_three_before_two(i) ==
    LET one == shape_one(i)
        three == shape_three(i)
    IN  IF one.kind = "Ok" THEN one
        ELSE IF three.kind = "Ok" THEN three
        ELSE shape_two(i)

\* alt((case one, case two, case three)): the first that matches, from the
\* same input; the error of the last when none does
float_lexeme(i) ==
    LET one == shape_one(i)
        two == shape_two(i)
    IN  IF one.kind = "Ok" THEN one
        ELSE IF two.kind = "Ok" THEN two
        ELSE shape_three(i)

(* str::parse::<f64>.  The text handed over starts with a digit or a dot,  *)
(* so the sign and the inf/nan spellings of the conversion do not arise.   *)
(* The grammar is digits [. digits] [(e|E) [+|-] digits] with one digit at *)
(* least before the exponent, and the whole text must be used.             *)

DigitValue(c) ==
    CASE c = "0" -> 0 [] c = "1" -> 1 [] c = "2" -> 2 [] c = "3" -> 3
      [] c = "4" -> 4 [] c = "5" -> 5 [] c = "6" -> 6 [] c = "7" -> 7
      [] c = "8" -> 8 [] c = "9" -> 9

\* the number of leading decimal digits of s
RECURSIVE DigitRun(_)
DigitRun(s) ==
    IF Len(s) >= 1 /\ s[1] \in Digits THEN 1 + DigitRun(Drop(s, 1)) ELSE 0

\* the value of a text of decimal digits
RECURSIVE DigitsValue(_)
DigitsValue(s) ==
    IF s = <<>> THEN 0
    ELSE 10 * DigitsValue(Take(s, Len(s) - 1)) + DigitValue(s[Len(s)])

\* mant * 10^exp with mant not a multiple of 10
RECURSIVE Normalize(_, _)
Normalize(mant, exp) ==
    IF mant = 0 THEN [mant |-> 0, exp |-> 0]
    ELSE IF mant % 10 = 0 THEN Normalize(mant \div 10, exp + 1)
    ELSE [mant |-> mant, exp |-> exp]

RECURSIVE DecimalLength(_)
DecimalLength(n) == IF n < 10 THEN 1 ELSE 1 + DecimalLength(n \div 10)

\* The f64 nearest to mant * 10^exp, written as that decimal: the mantissas
\* of the checked texts have few digits, so two texts give the same f64
\* exactly when they give the same decimal.  Beyond the range of f64 the
\* value is infinity, below it zero.
ToF64(mant, exp) ==
    LET n == Normalize(mant, exp)
        magnitude == n.exp + DecimalLength(n.mant) - 1
    IN  IF n.mant = 0 THEN n
        ELSE IF magnitude >= 309 THEN [mant |-> 1, exp |-> 309]
        ELSE IF magnitude <= -324 THEN [mant |-> 0, exp |-> 0]
        ELSE n

f64_from_str(s) ==
    LET nInt == DigitRun(s)
        afterInt == Drop(s, nInt)
        hasDot == Len(afterInt) >= 1 /\ afterInt[1] = "."
        afterDot == IF hasDot THEN Drop(afterInt, 1) ELSE afterInt
        nFrac == IF hasDot THEN DigitRun(afterDot) ELSE 0
        afterFrac == Drop(afterDot, nFrac)
        hasExp == Len(afterFrac) >= 1 /\ afterFrac[1] \in {"e", "E"}
        afterE == IF hasExp THEN Drop(afterFrac, 1) ELSE afterFrac
        hasSign == hasExp /\ Len(afterE) >= 1 /\ afterE[1] \in {"+", "-"}
        negative == hasSign /\ afterE[1] = "-"
        afterSign == IF hasSign THEN Drop(afterE, 1) ELSE afterE
        nExp == IF hasExp THEN DigitRun(afterSign) ELSE 0
        tail == Drop(afterSign, nExp)
        mant == DigitsValue(Take(s, nInt) \o Take(afterDot, nFrac))
        e == DigitsValue(Take(afterSign, nExp))
    IN  IF nInt + nFrac = 0 \/ (hasExp /\ nExp = 0) \/ tail # <<>>
        THEN [ok |-> FALSE]
        ELSE [ok |-> TRUE,
              value |-> ToF64(mant, (IF negative THEN 0 - e ELSE e) - nFrac)]

\* the closure of parse_float's map: res.parse::<f64>().unwrap()
to_number(next_input, res) ==
    LET parsed == f64_from_str(res)
    IN  IF parsed.ok THEN Ok(next_input, TokenNumber(parsed.value)) ELSE Panic

parse_float(i) ==
    LET r == float_lexeme(i)
    IN  IF r.kind = "Ok" THEN to_number(r.rest, r.out) ELSE r

\* the arguments of the closure of parse_float's map, when it is called
parse_float_conv(i) ==
    LET r == float_lexeme(i)
    IN  IF r.kind = "Ok" THEN <<[res |-> r.out, next_input |-> r.rest]>>
        ELSE NoConv

----------------------------------------------------------------------------
(* State machine: a call of one recognizer on a drawn input *)

Init ==
    /\ input \in Inputs
    /\ called = "none"
    /\ result = [kind |-> "None"]
    /\ conv = NoConv

CallParseSingleQuotedString ==
    /\ called = "none"
    /\ called' = "parse_single_quoted_string"
    /\ result' = parse_single_quoted_string(input)
    /\ UNCHANGED <<input, conv>>

CallParseDoubleQuotedString ==
    /\ called = "none"
    /\ called' = "parse_double_quoted_string"
    /\ result' = parse_double_quoted_string(input)
    /\ UNCHANGED <<input, conv>>

CallParseString ==
    /\ called = "none"
    /\ called' = "parse_string"
    /\ result' = parse_string(input)
    /\ UNCHANGED <<input, conv>>

CallParseFloat ==
    /\ called = "none"
    /\ called' = "parse_float"
    /\ result' = parse_float(input)
    /\ conv' = parse_float_conv(input)
    /\ UNCHANGED input

CallParseDecimal ==
    /\ called = "none"
    /\ called' = "parse_decimal"
    /\ result' = parse_decimal(input)
    /\ UNCHANGED <<input, conv>>

Next ==
    \/ CallParseSingleQuotedString
    \/ CallParseDoubleQuotedString
    \/ CallParseString
    \/ CallParseFloat
    \/ CallParseDecimal

Spec == Init /\ [][Next]_vars

----------------------------------------------------------------------------
(* The grammar of the specification, stated on the text alone *)

Range(s) == {s[j] : j \in 1..Len(s)}

EvenNumber(n) == n % 2 = 0

\* the number of consecutive backslashes right before position j of s
BackslashesBefore(s, j) ==
    CHOOSE n \in 0..(j - 1) :
        /\ \A m \in 1..n : s[j - m] = BS
        /\ (n = j - 1 \/ s[j - n - 1] # BS)

\* position j of s is not the second character of an escape
Unescaped(s, j) == EvenNumber(BackslashesBefore(s, j))

\* the positions after the opening quote that hold an unescaped Q
ClosingQuotes(Q, i) == {k \in 2..Len(i) : i[k] = Q /\ Unescaped(i, k)}

QuoteOf(name) ==
    IF name = "parse_single_quoted_string" THEN SQ ELSE DQ

QuotedRecognizers == {"parse_single_quoted_string", "parse_double_quoted_string"}

\* escape(s, Q): every backslash doubled, every Q preceded by a backslash
RECURSIVE escape(_, _)
escape(s, Q) ==
    IF s = <<>> THEN <<>>
    ELSE (IF s[1] \in {BS, Q} THEN <<BS, s[1]>> ELSE <<s[1]>>)
           \o escape(Drop(s, 1), Q)

\* DIGITS: a digit first, digits and underscores after it
IsDIGITS(p) ==
    /\ Len(p) >= 1
    /\ p[1] \in Digits
    /\ \A j \in 1..Len(p) : p[j] \in Digits \cup {"_"}

\* (e|E) [+|-] DIGITS
IsExponent(p) ==
    /\ Len(p) >= 2
    /\ p[1] \in {"e", "E"}
    /\ \/ IsDIGITS(Drop(p, 1))
       \/ p[2] \in {"+", "-"} /\ IsDIGITS(Drop(p, 2))

\* '.' DIGITS [exponent]
InShapeOne(p) ==
    /\ Len(p) >= 2
    /\ p[1] = "."
    /\ \E k \in 2..Len(p) :
          /\ IsDIGITS(SubSeq(p, 2, k))
          /\ (k = Len(p) \/ IsExponent(Drop(p, k)))

\* DIGITS ['.' DIGITS] exponent
InShapeTwo(p) ==
    \E k \in 1..Len(p) :
       /\ IsExponent(Drop(p, k))
       /\ \/ IsDIGITS(Take(p, k))
          \/ \E d \in 2..(k - 1) :
                /\ IsDIGITS(Take(p, d - 1))
                /\ p[d] = "."
                /\ IsDIGITS(SubSeq(p, d + 1, k))

\* DIGITS '.' [DIGITS]
InShapeThree(p) ==
    \E d \in 2..Len(p) :
       /\ IsDIGITS(Take(p, d - 1))
       /\ p[d] = "."
       /\ (d = Len(p) \/ IsDIGITS(Drop(p, d)))

InSomeShape(p) == InShapeOne(p) \/ InShapeTwo(p) \/ InShapeThree(p)

SetMax(S) == CHOOSE x \in S : \A y \in S : y <= x

SetMin(S) == CHOOSE x \in S : \A y \in S : x <= y

\* the text without its underscores
StripUnderscores(s) == SelectSeq(s, LAMBDA c : c # "_")

----------------------------------------------------------------------------
(* Claims *)

\* C1: for each quote kind Q and every text s (the empty text included), the
\* Q-quoted recognizer applied to Q + escape(s, Q) + Q succeeds and returns
\* Token::String(s) with nothing left of the input.
C1_RoundTripThroughEscaping ==
    called \in QuotedRecognizers =>
        \A s \in SeqsUpTo(StrAlphabet, MaxStrLen - 2) :
            LET Q == QuoteOf(called)
            IN  input = <<Q>> \o escape(s, Q) \o <<Q>>
                    => result = Ok(<<>>, TokenString(s))

\* C2: every recognizer returns Ok or Err on every input and never aborts:
\* when a numeric shape matches in parse_float, the conversion of the text
\* handed to it succeeds.
C2_RecognizersNeverAbort ==
    called # "none" =>
        /\ result.kind \in {"Ok", "Err"}
        /\ \A j \in 1..Len(conv) : f64_from_str(conv[j].res).ok

\* C3: the text parse_float hands to the conversion holds no underscore, and
\* the number returned is the value of the matched lexeme with its
\* underscores removed.
C3_SeparatorsStrippedBeforeConversion ==
    (called = "parse_float" /\ conv # NoConv) =>
        LET lexeme == Take(input, Len(input) - Len(conv[1].next_input))
        IN  /\ "_" \notin Range(conv[1].res)
            /\ result = Ok(conv[1].next_input,
                           TokenNumber(f64_from_str(StripUnderscores(lexeme)).value))

ContextLabel(name) ==
    CASE name = "parse_single_quoted_string" -> "single_quoted_string"
      [] name = "parse_double_quoted_string" -> "double_quoted_string"
      [] name = "parse_string" -> "string"

IsSuffix(t, s) == Len(t) <= Len(s) /\ t = Drop(s, Len(s) - Len(t))

\* C8: every error of parse_single_quoted_string, parse_double_quoted_string
\* and parse_string carries the context label of the recognizer that failed
\* and the input left at the point of failure.
C8_ErrorsCarryContextLabel ==
    (called \in QuotedRecognizers \cup {"parse_string"} /\ result.kind = "Err") =>
        /\ ContextLabel(called) \in Range(result.context)
        /\ IsSuffix(result.input, input)

\* the lengths of the prefixes of i that are DIGITS
DigitsPrefixes(i) == {k \in 1..Len(i) : IsDIGITS(Take(i, k))}

\* i begins with a DIGITS run followed neither by '.' nor by an exponent
BareInteger(i) ==
    /\ DigitsPrefixes(i) # {}
    /\ LET after == Drop(i, SetMax(DigitsPrefixes(i)))
       IN  /\ ~(Len(after) >= 1 /\ after[1] = ".")
           /\ \A m \in 1..Len(after) : ~IsExponent(Take(after, m))

\* C4: on every input that begins with a DIGITS run followed neither by '.'
\* nor by an exponent (the run may be the whole input), parse_float returns
\* an error and no Token::Number.
C4_BareIntegersRejected ==
    (called = "parse_float" /\ BareInteger(input)) =>
        /\ result.kind = "Err"
        /\ conv = NoConv

\* a bare integer with separators, followed by an exponent marker that has
\* no digits, has been rejected
C4_Witness ==
    /\ called = "parse_float"
    /\ BareInteger(input)
    /\ LET k == SetMax(DigitsPrefixes(input))
       IN  /\ "_" \in Range(Take(input, k))
           /\ k < Len(input)
           /\ input[k + 1] = "e"
    /\ result.kind = "Err"

\* C9: parse_decimal succeeds exactly on the inputs that start with a decimal
\* digit; the span it returns is the longest prefix made of digits each
\* followed by any number of underscores, underscores kept, and the rest of
\* the input is returned as remaining.
C9_DecimalSpan ==
    called = "parse_decimal" =>
        /\ result.kind \in {"Ok", "Err"}
        /\ result.kind = "Ok" <=> (Len(input) >= 1 /\ input[1] \in Digits)
        /\ result.kind = "Ok" =>
              LET k == SetMax(DigitsPrefixes(input))
              IN  /\ result.out = Take(input, k)
                  /\ result.rest = Drop(input, k)

\* a span that keeps separators and stops before the end of the input
C9_Witness ==
    /\ called = "parse_decimal"
    /\ result.kind = "Ok"
    /\ "_" \in Range(result.out)
    /\ result.out[Len(result.out)] = "_"
    /\ result.rest # <<>>

\* the lengths of the prefixes of i that match one of the three shapes
ShapePrefixes(i) == {k \in 1..Len(i) : InSomeShape(Take(i, k))}

\* C7: parse_float takes the longest prefix of the input that matches any of
\* the three shapes: the lexeme matched by trying the shapes in order is that
\* prefix and the remaining input is what follows it; parse_float fails
\* exactly when no prefix matches any shape.
C7_LongestPrefix ==
    called = "parse_float" =>
        IF ShapePrefixes(input) = {}
        THEN result.kind = "Err" /\ conv = NoConv
        ELSE LET k == SetMax(ShapePrefixes(input))
             IN  /\ result.kind # "Err"
                 /\ conv # NoConv
                 /\ conv[1].res = Take(input, k)
                 /\ conv[1].next_input = Drop(input, k)
                 /\ result.kind = "Ok" => result.rest = Drop(input, k)

\* an input of which shape three matches a prefix and shape two a longer one
C7_Witness ==
    /\ called = "parse_float"
    /\ result.kind = "Ok"
    /\ \E k1, k2 \in 1..Len(input) :
          /\ k1 < k2
          /\ InShapeThree(Take(input, k1))
          /\ InShapeTwo(Take(input, k2))
          /\ result.rest = Drop(input, k2)

\* C6: at most one of parse_single_quoted_string and
\* parse_double_quoted_string succeeds on an input; parse_string succeeds
\* exactly when one of them does and returns its token and remaining input;
\* an input that opens with one quote kind and has no unescaped closing quote
\* of that kind fails both and parse_string fails.
C6_OrderedAlternation ==
    called = "parse_string" =>
        LET single == parse_single_quoted_string(input)
            double == parse_double_quoted_string(input)
        IN  /\ ~(single.kind = "Ok" /\ double.kind = "Ok")
            /\ result.kind = "Ok" <=> (single.kind = "Ok" \/ double.kind = "Ok")
            /\ single.kind = "Ok" => result = single
            /\ double.kind = "Ok" => result = double
            /\ \A Q \in {SQ, DQ} :
                  (Len(input) >= 1 /\ input[1] = Q /\ ClosingQuotes(Q, input) = {})
                      => /\ single.kind = "Err"
                         /\ double.kind = "Err"
                         /\ result.kind = "Err"

\* mismatched delimiters: a text opened by one quote kind and ended by the
\* other has been rejected
C6_Witness ==
    /\ called = "parse_string"
    /\ Len(input) >= 3
    /\ input[1] = DQ
    /\ input[Len(input)] = SQ
    /\ ClosingQuotes(DQ, input) = {}
    /\ result.kind = "Err"

\* the cases (1) to (3) of C5: no opening Q, no unescaped closing Q, a
\* backslash at the end of the input before any closing Q
MissingQuote(Q, i) ==
    \/ Len(i) = 0
    \/ i[1] # Q
    \/ ClosingQuotes(Q, i) = {}
    \/ i[Len(i)] = BS /\ ClosingQuotes(Q, i) = {}

\* case (4) of C5 as it is written: before any unescaped closing Q, a
\* backslash followed by a character other than backslash or Q
BackslashBeforeOther(Q, i) ==
    \E j \in 2..(Len(i) - 1) :
       /\ i[j] = BS
       /\ i[j + 1] \notin {BS, Q}
       /\ \A k \in ClosingQuotes(Q, i) : k > j

\* case (4) with the backslash one that starts an escape, not one that is the
\* second character of an escape
EscapeOfOther(Q, i) ==
    \E j \in 2..(Len(i) - 1) :
       /\ i[j] = BS
       /\ Unescaped(i, j)
       /\ i[j + 1] \notin {BS, Q}
       /\ \A k \in ClosingQuotes(Q, i) : k > j

\* C5 as written: the Q-quoted recognizer returns an error on every input
\* that does not start with Q, or has no unescaped closing Q, or ends in a
\* backslash before any closing Q, or has before any unescaped closing Q a
\* backslash followed by a character other than backslash or Q.
C5_AsWritten ==
    called \in QuotedRecognizers =>
        LET Q == QuoteOf(called)
        IN  (MissingQuote(Q, input) \/ BackslashBeforeOther(Q, input))
                => result.kind = "Err"

\* C5 (amended): the same, where the backslash of case (4) is an unescaped
\* one, preceded by an even number of consecutive backslashes.
C5_MalformedRejected ==
    called \in QuotedRecognizers =>
        LET Q == QuoteOf(called)
        IN  (MissingQuote(Q, input) \/ EscapeOfOther(Q, input))
                => result.kind = "Err"

\* an escape of the other quote kind, with a closing quote after it, has been
\* rejected
C5_Witness ==
    /\ called = "parse_single_quoted_string"
    /\ Len(input) >= 4
    /\ input[1] = SQ
    /\ input[Len(input)] = SQ
    /\ ClosingQuotes(SQ, input) # {}
    /\ \E j \in 2..(Len(input) - 1) :
          /\ input[j] = BS
          /\ Unescaped(input, j)
          /\ input[j + 1] = DQ
          /\ \A k \in ClosingQuotes(SQ, input) : k > j
    /\ result.kind = "Err"

\* the positions of body that start an escape
EscapeStarts(body) == {j \in 1..Len(body) : body[j] = BS /\ Unescaped(body, j)}

\* body is made of characters other than backslash and Q and of the escapes
\* backslash-backslash and backslash-Q
WellFormedBody(Q, body) ==
    /\ \A j \in EscapeStarts(body) : j < Len(body) /\ body[j + 1] \in {BS, Q}
    /\ \A j \in 1..Len(body) : body[j] = Q => ~Unescaped(body, j)

\* body with each escape replaced by its second character
RECURSIVE DecodeFrom(_, _)
DecodeFrom(body, j) ==
    IF j > Len(body) THEN <<>>
    ELSE IF j \in EscapeStarts(body) THEN DecodeFrom(body, j + 1)
    ELSE <<body[j]>> \o DecodeFrom(body, j + 1)

====
